---- MODULE Spec2Model ----
(***************************************************************************)
(* Model of the audio pipeline of mozhi-translator:                        *)
(*   - the useAudioRecording hook (src/hooks/useAudioRecording.ts): the    *)
(*     rolling chunk buffer, start/stop, permission handling;              *)
(*   - the LiveCoach component (src/components/LiveCoach.tsx): the duplex  *)
(*     session life cycle and the playback scheduler of onmessage;         *)
(*   - the error box of a failed one-shot request (processAudioBlob in     *)
(*     src/components/DraftingAssistant.tsx, handleRecordingStop in        *)
(*     src/unnamed/part_003).                                              *)
(* Everything runs on one JavaScript event loop: every action below is one *)
(* run-to-completion step (a handler, or the part of an async function     *)
(* between two awaits).  React state is modelled as plain cells that hold  *)
(* the value of the last setState call.                                    *)
(* Times are in tenths of a second.                                        *)
(***************************************************************************)
EXTENDS Integers, Sequences, FiniteSets, TLC

\* ------------------------------------------------------------------------
\* Program constant and model bounds
\* ------------------------------------------------------------------------
MAX_RECORDING_CHUNKS == 300

\* start() calls in one behaviour of SpecRec
MaxStarts == 2
\* non-empty chunk events in one behaviour of SpecRec
MaxRecChunks == 2
\* non-empty chunk events in one behaviour of SpecBuffer
MaxBufChunks == 302
\* duration ticks counted
MaxDuration == 2

Calls == 1..MaxStarts

\* phrases in the message of a failed request
MaxPhrases == 2

\* connect() calls in one behaviour
MaxConnects == 2
\* audio messages handled in one behaviour of SpecLive / of SpecPlayback
MaxLiveSegments == 1
MaxSegments == 3
\* moves of the output clock in one behaviour of SpecLive / of SpecPlayback
MaxLiveAdvances == 1
MaxAdvances == 3
\* the output clock's reading is kept at or below this
MaxTime == 52
\* consecutive disconnect() calls counted
MaxDisconnectRun == 2

Attempts == 1..MaxConnects
\* audioBuffer.duration of the segments received, and the steps of the output clock
Durations == {5, 10, 15}
ClockSteps == {2, 48}
LiveDurations == {10}
VolumeLevels == {30}

Min(a, b) == IF a < b THEN a ELSE b
Max(a, b) == IF a > b THEN a ELSE b

VARIABLES
    \* ---- useAudioRecording: React state
    isRecording, recordingDuration, bufferCount, errorState, permissionDenied,
    \* ---- useAudioRecording: refs (0 stands for null)
    mediaRecorderRef, audioChunksRef, recordingContextRef, timerIntervalRef,
    \* ---- browser side of the hook
    hasPermissionsApi,   \* navigator.permissions is defined
    startPc,             \* per start() call: "none", "query", "gum", "done"
    recorderState,       \* per MediaRecorder: "none", "recording", "stopping", "flushed", "inactive"
    produced,            \* per MediaRecorder: non-empty chunks emitted so far
    liveTracks,          \* streams whose tracks are live
    liveTimers,          \* interval timers not cleared
    openContexts,        \* recording AudioContexts not closed
    hookMounted,
    \* ---- observation of the hook
    startCalls, queryCalls, gumCalls, chunkEvents, delivered,
    lastGumError,        \* err.name of the last getUserMedia rejection the hook caught
    \* ---- LiveCoach: React state
    isConnected, isMuted, volumeLevel, status,
    \* ---- LiveCoach: refs (0 stands for null; a context, node or session is named
    \*      by the connect() attempt that created it)
    audioContextRef, inputContextRef, sessionRef, outputNodeRef, nextStartTimeRef,
    analyserRef, animationFrameRef,
    \* ---- browser and remote side of LiveCoach, per connect() attempt
    connectPc,           \* "none", "gum" (awaiting getUserMedia), "done"
    mutedAtConnect,      \* isMuted as captured by the closures of the attempt
    channel,             \* "none", "connecting", "open", "errored" (error while open),
                         \* "refused" (error while connecting), "closed" (after it
                         \* was open), "failed" (never opened and gone)
    micLive,             \* attempts whose microphone tracks are live
    inputOpen,           \* attempts whose input AudioContext is not closed
    outputOpen,          \* attempts whose output AudioContext is not closed
    outClock,            \* currentTime of the attempt's output AudioContext
    streaming,           \* attempts whose onaudioprocess handler is installed
    pendingFrames,       \* attempts whose updateVolume loop has a frame requested
    liveMounted,
    \* ---- observation of LiveCoach
    connectCalls,
    lastDisconnectFrom,  \* status when disconnect() was entered, if the last step ran it
    disconnectRun,       \* disconnect() calls in a row, with no other step between
    closeError,          \* close() was called on a context that was closed already
    clockAdvances,
    playLog,             \* one record per audio message handled by onmessage
    lastFrame,           \* the last audio frame the microphone tap delivered
    \* ---- DraftingAssistant / ResearchAssistant
    thrown,              \* what the one-shot request throws when it fails
    isProcessing,        \* DraftingAssistant: isProcessing
    processingError,     \* DraftingAssistant: title of processingError, "null" for null
    researchProcessing,  \* ResearchAssistant: isProcessing
    researchError        \* ResearchAssistant: title of processingError, "null" for null

recVars == <<isRecording, recordingDuration, bufferCount, errorState, permissionDenied,
             mediaRecorderRef, audioChunksRef, recordingContextRef, timerIntervalRef,
             hasPermissionsApi, startPc, recorderState, produced, liveTracks,
             liveTimers, openContexts, hookMounted,
             startCalls, queryCalls, gumCalls, chunkEvents, delivered, lastGumError>>

liveVars == <<isConnected, isMuted, volumeLevel, status,
              audioContextRef, inputContextRef, sessionRef, outputNodeRef,
              nextStartTimeRef, analyserRef, animationFrameRef,
              connectPc, mutedAtConnect, channel, micLive, inputOpen, outputOpen,
              outClock, streaming, pendingFrames, liveMounted,
              connectCalls, lastDisconnectFrom, disconnectRun, closeError,
              clockAdvances, playLog, lastFrame>>

assistVars == <<thrown, isProcessing, processingError, researchProcessing, researchError>>

vars == <<recVars, liveVars, assistVars>>

\* ------------------------------------------------------------------------
\* useAudioRecording
\* ------------------------------------------------------------------------
InitRec ==
    /\ isRecording = FALSE
    /\ recordingDuration = 0
    /\ bufferCount = 0
    /\ errorState = "null"
    /\ permissionDenied = FALSE
    /\ mediaRecorderRef = 0
    /\ audioChunksRef = <<>>
    /\ recordingContextRef = 0
    /\ timerIntervalRef = 0
    /\ hasPermissionsApi \in BOOLEAN
    /\ startPc = [c \in Calls |-> "none"]
    /\ recorderState = [c \in Calls |-> "none"]
    /\ produced = [c \in Calls |-> 0]
    /\ liveTracks = {}
    /\ liveTimers = {}
    /\ openContexts = {}
    /\ hookMounted = TRUE
    /\ startCalls = 0
    /\ queryCalls = 0
    /\ gumCalls = 0
    /\ chunkEvents = 0
    /\ delivered = <<>>
    /\ lastGumError = "none"

\* audioChunksRef.current.push(data); if (length > cap) splice(1, 1)
RollingPushNoEvict(chunks, data, cap) == Append(chunks, data)

RollingPushEvictHead(chunks, data, cap) ==
    LET pushed == Append(chunks, data)
    IN  IF Len(pushed) > cap THEN Tail(pushed) ELSE pushed

RollingPushEvictNewest(chunks, data, cap) ==
    LET pushed == Append(chunks, data)
    IN  IF Len(pushed) > cap THEN SubSeq(pushed, 1, Len(pushed) - 1) ELSE pushed

RollingPush(chunks, data, cap) ==
    LET pushed == Append(chunks, data)
    IN  IF Len(pushed) > cap
        THEN <<pushed[1]>> \o SubSeq(pushed, 3, Len(pushed))
        ELSE pushed

\* bufferPercentage = Math.min((bufferCount / MAX) * 100, 100), kept exact as the
\* numerator of a fraction over MAX_RECORDING_CHUNKS
bufferPercentageOf(count) == Min(count * 100, 100 * MAX_RECORDING_CHUNKS)

bufferPercentage == bufferPercentageOf(bufferCount)

isBufferFullStrict(count) == count > MAX_RECORDING_CHUNKS

isBufferFullOf(count) == count >= MAX_RECORDING_CHUNKS

isBufferFull == isBufferFullOf(bufferCount)

\* getAudioBlob: null (<<>> here) when nothing is buffered, else the concatenation
getAudioBlob == audioChunksRef

StartRecordingNoCheck ==
    /\ hookMounted
    /\ ~isRecording \/ errorState # "null"
    /\ startCalls < MaxStarts
    /\ startCalls' = startCalls + 1
    /\ UNCHANGED liveVars
    /\ UNCHANGED assistVars
    /\ UNCHANGED lastGumError
    /\ IF FALSE
       THEN /\ errorState' = "permission-blocked-refresh"
            /\ startPc' = [startPc EXCEPT ![startCalls + 1] = "done"]
            /\ UNCHANGED <<queryCalls, gumCalls>>
       ELSE IF hasPermissionsApi
            THEN /\ queryCalls' = queryCalls + 1
                 /\ startPc' = [startPc EXCEPT ![startCalls + 1] = "query"]
                 /\ UNCHANGED <<errorState, gumCalls>>
            ELSE /\ errorState' = "null"
                 /\ gumCalls' = gumCalls + 1
                 /\ startPc' = [startPc EXCEPT ![startCalls + 1] = "gum"]
                 /\ UNCHANGED queryCalls
    /\ UNCHANGED <<isRecording, recordingDuration, bufferCount, permissionDenied,
                   mediaRecorderRef, audioChunksRef, recordingContextRef,
                   timerIntervalRef, hasPermissionsApi, recorderState, produced,
                   liveTracks, liveTimers, openContexts, hookMounted, chunkEvents,
                   delivered>>

\* startRecording, up to its first await
StartRecording ==
    /\ hookMounted
    /\ ~isRecording \/ errorState # "null"
    /\ startCalls < MaxStarts
    /\ startCalls' = startCalls + 1
    /\ UNCHANGED liveVars
    /\ UNCHANGED assistVars
    /\ UNCHANGED lastGumError
    /\ IF permissionDenied
       THEN /\ errorState' = "permission-blocked-refresh"
            /\ startPc' = [startPc EXCEPT ![startCalls + 1] = "done"]
            /\ UNCHANGED <<queryCalls, gumCalls>>
       ELSE IF hasPermissionsApi
            THEN /\ queryCalls' = queryCalls + 1
                 /\ startPc' = [startPc EXCEPT ![startCalls + 1] = "query"]
                 /\ UNCHANGED <<errorState, gumCalls>>
            ELSE /\ errorState' = "null"
                 /\ gumCalls' = gumCalls + 1
                 /\ startPc' = [startPc EXCEPT ![startCalls + 1] = "gum"]
                 /\ UNCHANGED queryCalls
    /\ UNCHANGED <<isRecording, recordingDuration, bufferCount, permissionDenied,
                   mediaRecorderRef, audioChunksRef, recordingContextRef,
                   timerIntervalRef, hasPermissionsApi, recorderState, produced,
                   liveTracks, liveTimers, openContexts, hookMounted, chunkEvents,
                   delivered>>

\* startRecording, from the answer of navigator.permissions.query to the next await
PermissionQueryReturns(c, answer) ==
    /\ startPc[c] = "query"
    /\ UNCHANGED liveVars
    /\ UNCHANGED assistVars
    /\ UNCHANGED lastGumError
    /\ IF answer = "denied"
       THEN /\ permissionDenied' = TRUE
            /\ errorState' = "permission-denied"
            /\ startPc' = [startPc EXCEPT ![c] = "done"]
            /\ UNCHANGED gumCalls
       ELSE \* "granted", "prompt", or the query threw
            /\ errorState' = "null"
            /\ gumCalls' = gumCalls + 1
            /\ startPc' = [startPc EXCEPT ![c] = "gum"]
            /\ UNCHANGED permissionDenied
    /\ UNCHANGED <<isRecording, recordingDuration, bufferCount,
                   mediaRecorderRef, audioChunksRef, recordingContextRef,
                   timerIntervalRef, hasPermissionsApi, recorderState, produced,
                   liveTracks, liveTimers, openContexts, hookMounted, startCalls,
                   queryCalls, chunkEvents, delivered>>

\* startRecording, after getUserMedia resolved: set-up of context, recorder and timer
GetUserMediaResolves(c) ==
    /\ startPc[c] = "gum"
    /\ UNCHANGED liveVars
    /\ UNCHANGED assistVars
    /\ UNCHANGED lastGumError
    /\ startPc' = [startPc EXCEPT ![c] = "done"]
    /\ permissionDenied' = FALSE
    /\ recordingContextRef' = c
    /\ openContexts' = openContexts \cup {c}
    /\ mediaRecorderRef' = c
    /\ audioChunksRef' = <<>>
    /\ bufferCount' = 0
    /\ recordingDuration' = 0
    /\ recorderState' = [recorderState EXCEPT ![c] = "recording"]
    /\ liveTracks' = liveTracks \cup {c}
    /\ isRecording' = TRUE
    /\ timerIntervalRef' = c
    /\ liveTimers' = liveTimers \cup {c}
    /\ UNCHANGED <<errorState, hasPermissionsApi, produced, hookMounted, startCalls,
                   queryCalls, gumCalls, chunkEvents, delivered>>

\* err.name === 'NotAllowedError' || err.name === 'PermissionDeniedError'
DeniesPermissionAlways(errName) == TRUE

DeniesPermission(errName) == errName \in {"NotAllowedError", "PermissionDeniedError"}

\* startRecording, catch block after getUserMedia rejected
GetUserMediaRejects(c, errName) ==
    /\ startPc[c] = "gum"
    /\ UNCHANGED liveVars
    /\ UNCHANGED assistVars
    /\ lastGumError' = errName
    /\ startPc' = [startPc EXCEPT ![c] = "done"]
    /\ IF DeniesPermission(errName)
       THEN /\ permissionDenied' = TRUE
            /\ errorState' = "permission-denied"
       ELSE /\ errorState' = "mic-error"
            /\ UNCHANGED permissionDenied
    /\ UNCHANGED <<isRecording, recordingDuration, bufferCount,
                   mediaRecorderRef, audioChunksRef, recordingContextRef,
                   timerIntervalRef, hasPermissionsApi, recorderState, produced,
                   liveTracks, liveTimers, openContexts, hookMounted, startCalls,
                   queryCalls, gumCalls, chunkEvents, delivered>>

\* mediaRecorder.ondataavailable of recorder r; hasData is event.data.size > 0
ondataavailable(r, hasData) ==
    IF hasData
    THEN /\ produced' = [produced EXCEPT ![r] = @ + 1]
         /\ chunkEvents' = chunkEvents + 1
         /\ audioChunksRef' = RollingPush(audioChunksRef, <<r, produced[r] + 1>>,
                                          MAX_RECORDING_CHUNKS)
         /\ bufferCount' = Len(audioChunksRef')
    ELSE UNCHANGED <<produced, chunkEvents, audioChunksRef, bufferCount>>

\* mediaRecorder.onstop
onstopAlwaysSignals ==
    /\ IF timerIntervalRef # 0
       THEN /\ liveTimers' = liveTimers \ {timerIntervalRef}
            /\ timerIntervalRef' = 0
       ELSE UNCHANGED <<liveTimers, timerIntervalRef>>
    /\ delivered' = Append(delivered, audioChunksRef)

onstop ==
    /\ IF timerIntervalRef # 0
       THEN /\ liveTimers' = liveTimers \ {timerIntervalRef}
            /\ timerIntervalRef' = 0
       ELSE UNCHANGED <<liveTimers, timerIntervalRef>>
    /\ IF Len(audioChunksRef) > 0
       THEN delivered' = Append(delivered, audioChunksRef)
       ELSE UNCHANGED delivered

\* The recorder's timeslice elapsed (mediaRecorder.start(1000)): a dataavailable event
RecorderTimeslice(r, hasData) ==
    /\ recorderState[r] = "recording"
    /\ ondataavailable(r, hasData)
    /\ UNCHANGED liveVars
    /\ UNCHANGED assistVars
    /\ UNCHANGED lastGumError
    /\ UNCHANGED <<isRecording, recordingDuration, errorState, permissionDenied,
                   mediaRecorderRef, recordingContextRef, timerIntervalRef,
                   hasPermissionsApi, startPc, recorderState, liveTracks, liveTimers,
                   openContexts, hookMounted, startCalls, queryCalls, gumCalls,
                   delivered>>

\* After stop(): the recorder's last dataavailable event
RecorderFlush(r, hasData) ==
    /\ recorderState[r] = "stopping"
    /\ recorderState' = [recorderState EXCEPT ![r] = "flushed"]
    /\ ondataavailable(r, hasData)
    /\ UNCHANGED liveVars
    /\ UNCHANGED assistVars
    /\ UNCHANGED lastGumError
    /\ UNCHANGED <<isRecording, recordingDuration, errorState, permissionDenied,
                   mediaRecorderRef, recordingContextRef, timerIntervalRef,
                   hasPermissionsApi, startPc, liveTracks, liveTimers,
                   openContexts, hookMounted, startCalls, queryCalls, gumCalls,
                   delivered>>

\* After stop(): the recorder's stop event
RecorderStopEvent(r) ==
    /\ recorderState[r] = "flushed"
    /\ recorderState' = [recorderState EXCEPT ![r] = "inactive"]
    /\ onstop
    /\ UNCHANGED liveVars
    /\ UNCHANGED assistVars
    /\ UNCHANGED lastGumError
    /\ UNCHANGED <<isRecording, recordingDuration, bufferCount, errorState,
                   permissionDenied, mediaRecorderRef, audioChunksRef,
                   recordingContextRef, hasPermissionsApi, startPc, produced,
                   liveTracks, openContexts, hookMounted, startCalls, queryCalls,
                   gumCalls, chunkEvents>>

\* stopRecording (handleToggleRecording calls it only while isRecording)
StopRecording ==
    /\ hookMounted
    /\ isRecording
    /\ UNCHANGED liveVars
    /\ UNCHANGED assistVars
    /\ UNCHANGED lastGumError
    /\ IF mediaRecorderRef # 0 /\ isRecording
       THEN /\ recorderState' = [recorderState EXCEPT ![mediaRecorderRef] =
                                    IF @ = "recording" THEN "stopping" ELSE @]
            /\ isRecording' = FALSE
            /\ liveTracks' = liveTracks \ {mediaRecorderRef}
       ELSE UNCHANGED <<recorderState, isRecording, liveTracks>>
    /\ IF timerIntervalRef # 0
       THEN /\ liveTimers' = liveTimers \ {timerIntervalRef}
            /\ timerIntervalRef' = 0
       ELSE UNCHANGED <<liveTimers, timerIntervalRef>>
    /\ UNCHANGED <<recordingDuration, bufferCount, errorState, permissionDenied,
                   mediaRecorderRef, audioChunksRef, recordingContextRef,
                   hasPermissionsApi, startPc, produced, openContexts, hookMounted,
                   startCalls, queryCalls, gumCalls, chunkEvents, delivered>>

\* The interval callback of timer t: setRecordingDuration(prev => prev + 1)
TimerTick(t) ==
    /\ t \in liveTimers
    /\ recordingDuration < MaxDuration
    /\ recordingDuration' = recordingDuration + 1
    /\ UNCHANGED liveVars
    /\ UNCHANGED assistVars
    /\ UNCHANGED lastGumError
    /\ UNCHANGED <<isRecording, bufferCount, errorState, permissionDenied,
                   mediaRecorderRef, audioChunksRef, recordingContextRef,
                   timerIntervalRef, hasPermissionsApi, startPc, recorderState,
                   produced, liveTracks, liveTimers, openContexts, hookMounted,
                   startCalls, queryCalls, gumCalls, chunkEvents, delivered>>

\* clearError (the dismiss button of the error box)
ClearError ==
    /\ hookMounted
    /\ errorState # "null"
    /\ errorState' = "null"
    /\ UNCHANGED liveVars
    /\ UNCHANGED assistVars
    /\ UNCHANGED lastGumError
    /\ UNCHANGED <<isRecording, recordingDuration, bufferCount, permissionDenied,
                   mediaRecorderRef, audioChunksRef, recordingContextRef,
                   timerIntervalRef, hasPermissionsApi, startPc, recorderState,
                   produced, liveTracks, liveTimers, openContexts, hookMounted,
                   startCalls, queryCalls, gumCalls, chunkEvents, delivered>>

\* The unmount clean-up of the hook's effect
HookUnmount ==
    /\ hookMounted
    /\ hookMounted' = FALSE
    /\ UNCHANGED liveVars
    /\ UNCHANGED assistVars
    /\ UNCHANGED lastGumError
    /\ liveTimers' = IF timerIntervalRef # 0 THEN liveTimers \ {timerIntervalRef}
                     ELSE liveTimers
    /\ openContexts' = IF recordingContextRef # 0
                       THEN openContexts \ {recordingContextRef} ELSE openContexts
    /\ UNCHANGED <<isRecording, recordingDuration, bufferCount, errorState,
                   permissionDenied, mediaRecorderRef, audioChunksRef,
                   recordingContextRef, timerIntervalRef, hasPermissionsApi, startPc,
                   recorderState, produced, liveTracks, startCalls, queryCalls,
                   gumCalls, chunkEvents, delivered>>

\* ------------------------------------------------------------------------
\* LiveCoach
\* ------------------------------------------------------------------------
InitLive ==
    /\ isConnected = FALSE
    /\ isMuted = FALSE
    /\ volumeLevel = 0
    /\ status = "idle"
    /\ audioContextRef = 0
    /\ inputContextRef = 0
    /\ sessionRef = 0
    /\ outputNodeRef = 0
    /\ nextStartTimeRef = 0
    /\ analyserRef = 0
    /\ animationFrameRef = 0
    /\ connectPc = [a \in Attempts |-> "none"]
    /\ mutedAtConnect = [a \in Attempts |-> FALSE]
    /\ channel = [a \in Attempts |-> "none"]
    /\ micLive = {}
    /\ inputOpen = {}
    /\ outputOpen = {}
    /\ outClock = [a \in Attempts |-> 0]
    /\ streaming = {}
    /\ pendingFrames = {}
    /\ liveMounted = TRUE
    /\ connectCalls = 0
    /\ lastDisconnectFrom = "none"
    /\ disconnectRun = 0
    /\ closeError = FALSE
    /\ clockAdvances = 0
    /\ playLog = <<>>
    /\ lastFrame = [att |-> 0, muted |-> FALSE, opened |-> FALSE, sent |-> FALSE,
                    live |-> FALSE, state |-> "idle"]

\* disconnect(), called while status is `from`
disconnectKeepsRefs(from) ==
    /\ IF animationFrameRef # 0
       THEN /\ pendingFrames' = pendingFrames \ {animationFrameRef}
            /\ animationFrameRef' = 0
       ELSE UNCHANGED <<pendingFrames, animationFrameRef>>
    /\ outputOpen' = IF audioContextRef # 0 THEN outputOpen \ {audioContextRef}
                     ELSE outputOpen
    /\ inputOpen' = IF inputContextRef # 0 THEN inputOpen \ {inputContextRef}
                    ELSE inputOpen
    /\ closeError' = (\/ closeError
                       \/ (audioContextRef # 0 /\ audioContextRef \notin outputOpen)
                       \/ (inputContextRef # 0 /\ inputContextRef \notin inputOpen))
    /\ UNCHANGED <<audioContextRef, inputContextRef>>
    /\ isConnected' = FALSE
    /\ status' = "idle"
    /\ volumeLevel' = 0
    /\ lastDisconnectFrom' = from
    /\ disconnectRun' = Min(disconnectRun + 1, MaxDisconnectRun)

disconnect(from) ==
    /\ IF animationFrameRef # 0
       THEN /\ pendingFrames' = pendingFrames \ {animationFrameRef}
            /\ animationFrameRef' = 0
       ELSE UNCHANGED <<pendingFrames, animationFrameRef>>
    /\ outputOpen' = IF audioContextRef # 0 THEN outputOpen \ {audioContextRef}
                     ELSE outputOpen
    /\ audioContextRef' = 0
    /\ inputOpen' = IF inputContextRef # 0 THEN inputOpen \ {inputContextRef}
                    ELSE inputOpen
    /\ inputContextRef' = 0
    \* close() of a context that is closed already rejects with InvalidStateError
    /\ closeError' = (\/ closeError
                       \/ (audioContextRef # 0 /\ audioContextRef \notin outputOpen)
                       \/ (inputContextRef # 0 /\ inputContextRef \notin inputOpen))
    /\ isConnected' = FALSE
    /\ status' = "idle"
    /\ volumeLevel' = 0
    /\ lastDisconnectFrom' = from
    /\ disconnectRun' = Min(disconnectRun + 1, MaxDisconnectRun)

\* connect(), up to its await of getUserMedia (the Start Conversation button)
Connect ==
    /\ liveMounted
    /\ ~isConnected
    /\ connectCalls < MaxConnects
    /\ connectCalls' = connectCalls + 1
    /\ status' = "connecting"
    /\ connectPc' = [connectPc EXCEPT ![connectCalls + 1] = "gum"]
    /\ mutedAtConnect' = [mutedAtConnect EXCEPT ![connectCalls + 1] = isMuted]
    /\ lastDisconnectFrom' = "none"
    /\ disconnectRun' = 0
    /\ UNCHANGED recVars
    /\ UNCHANGED assistVars
    /\ UNCHANGED lastFrame
    /\ UNCHANGED <<isConnected, isMuted, volumeLevel, audioContextRef, inputContextRef,
                   sessionRef, outputNodeRef, nextStartTimeRef, analyserRef,
                   animationFrameRef, channel, micLive, inputOpen, outputOpen,
                   outClock, streaming, pendingFrames, liveMounted, closeError, clockAdvances, playLog>>

\* scriptProcessor.onaudioprocess after createScriptProcessor: connect() leaves it
\* unset, onopen installs it
HandlerAfterSetupInstalled(installed, a) == installed \cup {a}

HandlerAfterSetup(installed, a) == installed

\* connect(), after getUserMedia resolved: input context, analyser, first
\* updateVolume(), output context, clock reset, ai.live.connect(), sessionRef
ConnectSetup(a, level) ==
    /\ connectPc[a] = "gum"
    /\ connectPc' = [connectPc EXCEPT ![a] = "done"]
    /\ micLive' = micLive \cup {a}
    /\ inputContextRef' = a
    /\ inputOpen' = inputOpen \cup {a}
    /\ analyserRef' = a
    /\ volumeLevel' = level
    /\ animationFrameRef' = a
    /\ pendingFrames' = pendingFrames \cup {a}
    /\ audioContextRef' = a
    /\ outputOpen' = outputOpen \cup {a}
    /\ outputNodeRef' = a
    /\ nextStartTimeRef' = 0
    /\ channel' = [channel EXCEPT ![a] = "connecting"]
    /\ sessionRef' = a
    /\ streaming' = HandlerAfterSetup(streaming, a)
    /\ lastDisconnectFrom' = "none"
    /\ disconnectRun' = 0
    /\ UNCHANGED recVars
    /\ UNCHANGED assistVars
    /\ UNCHANGED lastFrame
    /\ UNCHANGED <<isConnected, isMuted, status, mutedAtConnect, outClock,
                   liveMounted, connectCalls, closeError, clockAdvances, playLog>>

\* connect(), catch block after getUserMedia rejected
ConnectFails(a) ==
    /\ connectPc[a] = "gum"
    /\ connectPc' = [connectPc EXCEPT ![a] = "done"]
    /\ disconnect("error")
    /\ UNCHANGED recVars
    /\ UNCHANGED assistVars
    /\ UNCHANGED lastFrame
    /\ UNCHANGED <<isMuted, sessionRef, outputNodeRef, nextStartTimeRef, analyserRef,
                   mutedAtConnect, channel, micLive, outClock, streaming, liveMounted,
                   connectCalls, clockAdvances, playLog>>

\* The promise of ai.live.connect rejects: it is neither awaited nor caught
SessionRejects(a) ==
    /\ channel[a] = "connecting"
    /\ channel' = [channel EXCEPT ![a] = "failed"]
    /\ lastDisconnectFrom' = "none"
    /\ disconnectRun' = 0
    /\ UNCHANGED recVars
    /\ UNCHANGED assistVars
    /\ UNCHANGED lastFrame
    /\ UNCHANGED <<isConnected, isMuted, volumeLevel, status, audioContextRef,
                   inputContextRef, sessionRef, outputNodeRef, nextStartTimeRef,
                   analyserRef, animationFrameRef, connectPc, mutedAtConnect, micLive,
                   inputOpen, outputOpen, outClock, streaming, pendingFrames,
                   liveMounted, connectCalls, closeError, clockAdvances, playLog>>

\* callbacks.onopen
onopen(a) ==
    /\ channel[a] = "connecting"
    /\ channel' = [channel EXCEPT ![a] = "open"]
    /\ isConnected' = TRUE
    /\ status' = "connected"
    /\ streaming' = streaming \cup {a}
    /\ lastDisconnectFrom' = "none"
    /\ disconnectRun' = 0
    /\ UNCHANGED recVars
    /\ UNCHANGED assistVars
    /\ UNCHANGED lastFrame
    /\ UNCHANGED <<isMuted, volumeLevel, audioContextRef, inputContextRef, sessionRef,
                   outputNodeRef, nextStartTimeRef, analyserRef, animationFrameRef,
                   connectPc, mutedAtConnect, micLive, inputOpen, outputOpen, outClock,
                   pendingFrames, liveMounted, connectCalls, closeError, clockAdvances, playLog>>

\* The scheduling lines of onmessage: the value of nextStartTimeRef after the snap
\* (the start time of the segment), from the value before and the device clock
SnapNever(next, currentTime) == next

Snap(next, currentTime) == IF next < currentTime THEN currentTime ELSE next

\* nextStartTimeRef after a message whose decoding threw
AfterDecodeErrorSnapped(next, currentTime) == Snap(next, currentTime)

AfterDecodeError(next, currentTime) == next

\* nextStartTimeRef.current += audioBuffer.duration
AdvanceHalf(start, duration) == start + (duration \div 2)

Advance(start, duration) == start + duration

\* bufferSource.connect(outputNodeRef.current): a node of attempt a's output context
\* connects only to a gain node of the same context (InvalidAccessError otherwise)
Connects(a, node) == node = a

\* callbacks.onmessage of attempt a for a message that carries audio; decodes is
\* FALSE when base64ToBytes / pcmToAudioBuffer throws, duration is
\* audioBuffer.duration.  Whatever throws inside the try block is caught and logged.
onmessage(a, decodes, duration) ==
    /\ channel[a] = "open"
    /\ outputNodeRef # 0
    /\ LET currentTime == outClock[a]
           start == Snap(nextStartTimeRef, currentTime)
       IN  IF decodes /\ Connects(a, outputNodeRef)
           THEN /\ nextStartTimeRef' = Advance(start, duration)
                /\ playLog' = Append(playLog,
                      [att |-> a, now |-> currentTime, dur |-> duration,
                       decoded |-> TRUE, ok |-> TRUE,
                       before |-> nextStartTimeRef, start |-> start,
                       after |-> nextStartTimeRef'])
           ELSE /\ nextStartTimeRef' = IF decodes THEN nextStartTimeRef
                                       ELSE AfterDecodeError(nextStartTimeRef, currentTime)
                /\ playLog' = Append(playLog,
                      [att |-> a, now |-> currentTime, dur |-> duration,
                       decoded |-> decodes, ok |-> FALSE,
                       before |-> nextStartTimeRef, start |-> -1,
                       after |-> nextStartTimeRef'])
    /\ lastDisconnectFrom' = "none"
    /\ disconnectRun' = 0
    /\ UNCHANGED recVars
    /\ UNCHANGED assistVars
    /\ UNCHANGED lastFrame
    /\ UNCHANGED <<isConnected, isMuted, volumeLevel, status, audioContextRef,
                   inputContextRef, sessionRef, outputNodeRef, analyserRef,
                   animationFrameRef, connectPc, mutedAtConnect, channel, micLive,
                   inputOpen, outputOpen, outClock, streaming, pendingFrames,
                   liveMounted, connectCalls, closeError, clockAdvances>>

\* callbacks.onclose
onclose(a) ==
    /\ channel[a] \in {"open", "errored", "refused"}
    /\ channel' = [channel EXCEPT ![a] = IF @ = "refused" THEN "failed" ELSE "closed"]
    /\ isConnected' = FALSE
    /\ status' = "idle"
    /\ lastDisconnectFrom' = "none"
    /\ disconnectRun' = 0
    /\ UNCHANGED recVars
    /\ UNCHANGED assistVars
    /\ UNCHANGED lastFrame
    /\ UNCHANGED <<isMuted, volumeLevel, audioContextRef, inputContextRef, sessionRef,
                   outputNodeRef, nextStartTimeRef, analyserRef, animationFrameRef,
                   connectPc, mutedAtConnect, micLive, inputOpen, outputOpen, outClock,
                   streaming, pendingFrames, liveMounted, connectCalls,
                   closeError, clockAdvances,
                   playLog>>

\* callbacks.onerror: setStatus('error'); disconnect().  The channel reports an error
\* while it is open or while it is being established
onerror(a) ==
    /\ channel[a] \in {"connecting", "open"}
    /\ channel' = [channel EXCEPT ![a] = IF @ = "open" THEN "errored" ELSE "refused"]
    /\ disconnect("error")
    /\ UNCHANGED recVars
    /\ UNCHANGED assistVars
    /\ UNCHANGED lastFrame
    /\ UNCHANGED <<isMuted, sessionRef, outputNodeRef, nextStartTimeRef, analyserRef,
                   connectPc, mutedAtConnect, micLive, outClock, streaming, liveMounted,
                   connectCalls, clockAdvances, playLog>>

\* The End Call button: disconnect()
EndCall ==
    /\ liveMounted
    /\ isConnected
    /\ disconnect(status)
    /\ UNCHANGED recVars
    /\ UNCHANGED assistVars
    /\ UNCHANGED lastFrame
    /\ UNCHANGED <<isMuted, sessionRef, outputNodeRef, nextStartTimeRef, analyserRef,
                   connectPc, mutedAtConnect, channel, micLive, outClock, streaming,
                   liveMounted, connectCalls, clockAdvances, playLog>>

\* The unmount clean-up of the component: disconnect()
LiveUnmount ==
    /\ liveMounted
    /\ liveMounted' = FALSE
    /\ disconnect(status)
    /\ UNCHANGED recVars
    /\ UNCHANGED assistVars
    /\ UNCHANGED lastFrame
    /\ UNCHANGED <<isMuted, sessionRef, outputNodeRef, nextStartTimeRef, analyserRef,
                   connectPc, mutedAtConnect, channel, micLive, outClock, streaming,
                   connectCalls, clockAdvances, playLog>>

\* toggleMute (the button is rendered only while isConnected)
toggleMute ==
    /\ liveMounted
    /\ isConnected
    /\ isMuted' = ~isMuted
    /\ lastDisconnectFrom' = "none"
    /\ disconnectRun' = 0
    /\ UNCHANGED recVars
    /\ UNCHANGED assistVars
    /\ UNCHANGED lastFrame
    /\ UNCHANGED <<isConnected, volumeLevel, status, audioContextRef, inputContextRef,
                   sessionRef, outputNodeRef, nextStartTimeRef, analyserRef,
                   animationFrameRef, connectPc, mutedAtConnect, channel, micLive,
                   inputOpen, outputOpen, outClock, streaming, pendingFrames,
                   liveMounted, connectCalls, closeError, clockAdvances, playLog>>

\* A requested animation frame of attempt a's loop fires: updateVolume()
updateVolume(a, level) ==
    /\ a \in pendingFrames
    /\ analyserRef # 0
    /\ volumeLevel' = level
    /\ animationFrameRef' = a
    /\ lastDisconnectFrom' = "none"
    /\ disconnectRun' = 0
    /\ UNCHANGED recVars
    /\ UNCHANGED assistVars
    /\ UNCHANGED lastFrame
    /\ UNCHANGED <<isConnected, isMuted, status, audioContextRef, inputContextRef,
                   sessionRef, outputNodeRef, nextStartTimeRef, analyserRef, connectPc,
                   mutedAtConnect, channel, micLive, inputOpen, outputOpen, outClock,
                   streaming, pendingFrames, liveMounted, connectCalls,
                   closeError, clockAdvances,
                   playLog>>

\* The onaudioprocess handler hands the frame to session.sendRealtimeInput: isMuted
\* is the value the closure of the connect() call captured
HandsFrame(a) == a \in streaming /\ ~mutedAtConnect[a]

\* The script processor of attempt a delivers an audio frame (its input context is
\* running); without a handler the frame goes nowhere
onaudioprocess(a) ==
    /\ a \in inputOpen
    /\ a \in micLive
    /\ lastFrame' = [att |-> a, muted |-> isMuted,
                     opened |-> channel[a] \in {"open", "errored", "closed"},
                     sent |-> HandsFrame(a),
                     live |-> channel[a] = "open", state |-> status]
    /\ lastDisconnectFrom' = "none"
    /\ disconnectRun' = 0
    /\ UNCHANGED recVars
    /\ UNCHANGED assistVars
    /\ UNCHANGED <<isConnected, isMuted, volumeLevel, status, audioContextRef,
                   inputContextRef, sessionRef, outputNodeRef, nextStartTimeRef,
                   analyserRef, animationFrameRef, connectPc, mutedAtConnect, channel,
                   micLive, inputOpen, outputOpen, outClock, streaming, pendingFrames,
                   liveMounted, connectCalls, closeError, clockAdvances, playLog>>

\* The output device's clock (AudioContext.currentTime) advances while it is open
ClockAdvances(a, d) ==
    /\ a \in outputOpen
    /\ outClock' = [outClock EXCEPT ![a] = @ + d]
    /\ clockAdvances' = clockAdvances + 1
    /\ lastDisconnectFrom' = "none"
    /\ disconnectRun' = 0
    /\ UNCHANGED recVars
    /\ UNCHANGED assistVars
    /\ UNCHANGED lastFrame
    /\ UNCHANGED <<isConnected, isMuted, volumeLevel, status, audioContextRef,
                   inputContextRef, sessionRef, outputNodeRef, nextStartTimeRef,
                   analyserRef, animationFrameRef, connectPc, mutedAtConnect, channel,
                   micLive, inputOpen, outputOpen, streaming, pendingFrames,
                   liveMounted, connectCalls, closeError, playLog>>

\* ------------------------------------------------------------------------
\* DraftingAssistant / ResearchAssistant: the error box of a failed request
\* ------------------------------------------------------------------------
\* A string is the sequence of its characters.
UpperCase ==
    <<"A", "B", "C", "D", "E", "F", "G", "H", "I", "J", "K", "L", "M",
      "N", "O", "P", "Q", "R", "S", "T", "U", "V", "W", "X", "Y", "Z">>

LowerCase ==
    <<"a", "b", "c", "d", "e", "f", "g", "h", "i", "j", "k", "l", "m",
      "n", "o", "p", "q", "r", "s", "t", "u", "v", "w", "x", "y", "z">>

\* The lower-case letter of every upper-case letter
LowerOf ==
    [c \in {UpperCase[k] : k \in 1..26} |->
        LowerCase[CHOOSE k \in 1..26 : UpperCase[k] = c]]

\* String.prototype.toLowerCase
toLowerCase(s) ==
    [i \in 1..Len(s) |-> IF s[i] \in DOMAIN LowerOf THEN LowerOf[s[i]] ELSE s[i]]

\* String.prototype.includes
includes(s, needle) ==
    \E i \in 0..(Len(s) - Len(needle)) :
        \A j \in 1..Len(needle) : s[i + j] = needle[j]

\* error.toString() of the value the request threw: "name: message" for an Error,
\* the message alone when the name is empty, the name alone when the message is
errorToString(error) ==
    IF error.name = <<>> THEN error.message
    ELSE IF error.message = <<>> THEN error.name
    ELSE error.name \o <<":", " ">> \o error.message

\* const errString = error.toString().toLowerCase()
errString(error) == toLowerCase(errorToString(error))

\* The substrings the catch blocks look for
kwSafety == <<"s", "a", "f", "e", "t", "y">>

kwBlocked == <<"b", "l", "o", "c", "k", "e", "d">>

kw429 == <<"4", "2", "9">>

kwResourceExhausted ==
    <<"r", "e", "s", "o", "u", "r", "c", "e", " ", "e", "x", "h", "a", "u", "s", "t",
      "e", "d">>

kwNoResponse ==
    <<"n", "o", " ", "r", "e", "s", "p", "o", "n", "s", "e", " ", "g", "e", "n", "e",
      "r", "a", "t", "e", "d">>

kwCandidate == <<"c", "a", "n", "d", "i", "d", "a", "t", "e">>

kwNetwork == <<"n", "e", "t", "w", "o", "r", "k">>

kwFetch == <<"f", "e", "t", "c", "h">>

\* The if / else-if chain of processAudioBlob's catch block, with the network test
\* moved to the front
draftTitleOfNetworkFirst(s) ==
    IF includes(s, kwNetwork) \/ includes(s, kwFetch) THEN "Connection Error"
    ELSE IF includes(s, kwSafety) \/ includes(s, kwBlocked) THEN "Content Flagged"
    ELSE IF includes(s, kw429) \/ includes(s, kwResourceExhausted) THEN "High Traffic"
    ELSE IF includes(s, kwNoResponse) \/ includes(s, kwCandidate) THEN "Audio Unclear"
    ELSE "Processing Failed"

\* The title processAudioBlob's catch block (DraftingAssistant) chooses
draftTitleOf(s) ==
    IF includes(s, kwSafety) \/ includes(s, kwBlocked) THEN "Content Flagged"
    ELSE IF includes(s, kw429) \/ includes(s, kwResourceExhausted) THEN "High Traffic"
    ELSE IF includes(s, kwNoResponse) \/ includes(s, kwCandidate) THEN "Audio Unclear"
    ELSE IF includes(s, kwNetwork) \/ includes(s, kwFetch) THEN "Connection Error"
    ELSE "Processing Failed"

\* The title handleRecordingStop's catch block (ResearchAssistant) chooses
researchTitleOf(s) ==
    IF includes(s, kwSafety) \/ includes(s, kwBlocked) THEN "Content Flagged"
    ELSE IF includes(s, kw429) \/ includes(s, kwResourceExhausted) THEN "System Busy"
    ELSE IF includes(s, kwNoResponse) \/ includes(s, kwCandidate) THEN "Audio Unclear"
    ELSE IF includes(s, kwNetwork) \/ includes(s, kwFetch) THEN "Connection Error"
    ELSE "Processing Failed"

\* Parts of the messages the requests fail with
phNoResponse ==
    <<"N", "o", " ", "r", "e", "s", "p", "o", "n", "s", "e", " ", "g", "e", "n", "e",
      "r", "a", "t", "e", "d">>

phNoAudio ==
    <<"N", "o", " ", "a", "u", "d", "i", "o", " ", "d", "a", "t", "a", " ", "r", "e",
      "t", "u", "r", "n", "e", "d">>

phFailedToFetch ==
    <<"F", "a", "i", "l", "e", "d", " ", "t", "o", " ", "f", "e", "t", "c", "h">>

ph429 == <<"4", "2", "9">>

phResourceExhausted ==
    <<"R", "e", "s", "o", "u", "r", "c", "e", " ", "e", "x", "h", "a", "u", "s", "t",
      "e", "d">>

phSafety == <<"S", "A", "F", "E", "T", "Y">>

phBlocked == <<"b", "l", "o", "c", "k", "e", "d">>

phCandidates == <<"c", "a", "n", "d", "i", "d", "a", "t", "e", "s">>

phNetworkError == <<"N", "e", "t", "w", "o", "r", "k", "E", "r", "r", "o", "r">>

Phrases ==
    {phNoResponse, phNoAudio, phFailedToFetch, ph429, phResourceExhausted,
     phSafety, phBlocked, phCandidates, phNetworkError}

nameError == <<"E", "r", "r", "o", "r">>

nameTypeError == <<"T", "y", "p", "e", "E", "r", "r", "o", "r">>

\* The name of the thrown value; empty for a value that is not an Error
ErrorNames == {<<>>, nameError, nameTypeError}

\* Messages of at most n phrases, separated by blanks
RECURSIVE MessagesOf(_)
MessagesOf(n) ==
    IF n = 0 THEN {<<>>}
    ELSE LET shorter == MessagesOf(n - 1)
         IN  shorter \cup {IF m = <<>> THEN p ELSE m \o <<" ">> \o p :
                             m \in shorter, p \in Phrases}

\* What generateDraft / generateResearchContent can throw
Failures == [name : ErrorNames, message : MessagesOf(MaxPhrases)]

InitAssist ==
    /\ isProcessing = FALSE
    /\ processingError = "null"
    /\ researchProcessing = FALSE
    /\ researchError = "null"

\* processAudioBlob up to its await
processAudioBlob ==
    /\ ~isProcessing
    /\ isProcessing' = TRUE
    /\ processingError' = "null"
    /\ UNCHANGED <<thrown, researchProcessing, researchError>>
    /\ UNCHANGED recVars
    /\ UNCHANGED liveVars

\* processAudioBlob: generateDraft rejects; the catch block, then finally
processAudioBlobFails ==
    /\ isProcessing
    /\ processingError' = draftTitleOf(errString(thrown))
    /\ isProcessing' = FALSE
    /\ UNCHANGED <<thrown, researchProcessing, researchError>>
    /\ UNCHANGED recVars
    /\ UNCHANGED liveVars

\* processAudioBlob: generateDraft resolves; finally
processAudioBlobSucceeds ==
    /\ isProcessing
    /\ isProcessing' = FALSE
    /\ UNCHANGED <<thrown, processingError, researchProcessing, researchError>>
    /\ UNCHANGED recVars
    /\ UNCHANGED liveVars

\* handleRecordingStop (ResearchAssistant) up to its await
handleRecordingStop ==
    /\ ~researchProcessing
    /\ researchProcessing' = TRUE
    /\ researchError' = "null"
    /\ UNCHANGED <<thrown, isProcessing, processingError>>
    /\ UNCHANGED recVars
    /\ UNCHANGED liveVars

\* handleRecordingStop: generateResearchContent rejects; the catch block, then finally
handleRecordingStopFails ==
    /\ researchProcessing
    /\ researchError' = researchTitleOf(errString(thrown))
    /\ researchProcessing' = FALSE
    /\ UNCHANGED <<thrown, isProcessing, processingError>>
    /\ UNCHANGED recVars
    /\ UNCHANGED liveVars

\* handleRecordingStop: generateResearchContent resolves; finally
handleRecordingStopSucceeds ==
    /\ researchProcessing
    /\ researchProcessing' = FALSE
    /\ UNCHANGED <<thrown, isProcessing, processingError, researchError>>
    /\ UNCHANGED recVars
    /\ UNCHANGED liveVars

\* ------------------------------------------------------------------------
\* Specifications
\* ------------------------------------------------------------------------
\* No request has failed
NoFailure == [name |-> <<>>, message |-> <<>>]

Init == InitRec /\ InitLive /\ InitAssist /\ thrown = NoFailure

\* The same, in a browser that has navigator.permissions (the coach never reads it)
InitCoach == Init /\ hasPermissionsApi = TRUE

\* The hook with concurrent start() calls and few chunks
NextRec ==
    \/ StartRecording
    \/ \E c \in Calls : \E answer \in {"denied", "granted"} :
            PermissionQueryReturns(c, answer)
    \/ \E c \in Calls : GetUserMediaResolves(c)
    \/ \E c \in Calls : \E errName \in {"NotAllowedError", "NotFoundError"} :
            GetUserMediaRejects(c, errName)
    \/ \E r \in Calls : \E hasData \in BOOLEAN :
            chunkEvents < MaxRecChunks /\ RecorderTimeslice(r, hasData)
    \/ \E r \in Calls : \E hasData \in BOOLEAN :
            (hasData => chunkEvents < MaxRecChunks) /\ RecorderFlush(r, hasData)
    \/ \E r \in Calls : RecorderStopEvent(r)
    \/ StopRecording
    \/ \E t \in Calls : TimerTick(t)
    \/ ClearError
    \/ HookUnmount

SpecRec == Init /\ [][NextRec]_vars

\* One recording session, long enough to fill the rolling buffer and roll it
NextBuffer ==
    \/ startCalls = 0 /\ StartRecording
    \/ \E answer \in {"denied", "granted"} : PermissionQueryReturns(1, answer)
    \/ GetUserMediaResolves(1)
    \/ \E errName \in {"NotAllowedError", "NotFoundError"} : GetUserMediaRejects(1, errName)
    \/ \E hasData \in BOOLEAN :
            chunkEvents < MaxBufChunks /\ RecorderTimeslice(1, hasData)
    \/ \E hasData \in BOOLEAN :
            (hasData => chunkEvents < MaxBufChunks) /\ RecorderFlush(1, hasData)
    \/ RecorderStopEvent(1)
    \/ StopRecording
    \/ TimerTick(1)

SpecBuffer == Init /\ [][NextBuffer]_vars

\* The duplex session with concurrent connect() attempts and little playback
NextLive ==
    \/ Connect
    \/ \E a \in Attempts : \E level \in VolumeLevels : ConnectSetup(a, level)
    \/ \E a \in Attempts : ConnectFails(a)
    \/ \E a \in Attempts : SessionRejects(a)
    \/ \E a \in Attempts : onopen(a)
    \/ \E a \in Attempts : \E decodes \in BOOLEAN : \E duration \in LiveDurations :
            Len(playLog) < MaxLiveSegments /\ onmessage(a, decodes, duration)
    \/ \E a \in Attempts : onclose(a)
    \/ \E a \in Attempts : onerror(a)
    \/ EndCall
    \/ LiveUnmount
    \/ toggleMute
    \/ \E a \in Attempts : \E level \in VolumeLevels : updateVolume(a, level)
    \/ \E a \in Attempts : \E d \in ClockSteps :
            /\ clockAdvances < MaxLiveAdvances
            /\ outClock[a] + d <= MaxTime
            /\ ClockAdvances(a, d)

SpecLive == InitCoach /\ [][NextLive]_vars

\* The connection life cycle alone: every step that reads or writes what
\* disconnect() reads or writes (status, the context references, the frame loop)
NextSession ==
    \/ Connect
    \/ \E a \in Attempts : \E level \in VolumeLevels : ConnectSetup(a, level)
    \/ \E a \in Attempts : ConnectFails(a)
    \/ \E a \in Attempts : SessionRejects(a)
    \/ \E a \in Attempts : onopen(a)
    \/ \E a \in Attempts : onclose(a)
    \/ \E a \in Attempts : onerror(a)
    \/ EndCall
    \/ LiveUnmount
    \/ \E a \in Attempts : \E level \in VolumeLevels : updateVolume(a, level)

SpecSession == InitCoach /\ [][NextSession]_vars

\* The connection life cycle with the microphone tap and the mute button
NextStream ==
    \/ Connect
    \/ \E a \in Attempts : \E level \in VolumeLevels : ConnectSetup(a, level)
    \/ \E a \in Attempts : ConnectFails(a)
    \/ \E a \in Attempts : SessionRejects(a)
    \/ \E a \in Attempts : onopen(a)
    \/ \E a \in Attempts : onclose(a)
    \/ \E a \in Attempts : onerror(a)
    \/ EndCall
    \/ LiveUnmount
    \/ toggleMute
    \/ \E a \in Attempts : onaudioprocess(a)

SpecStream == InitCoach /\ [][NextStream]_vars

\* One connected session receiving segments while the output clock runs
NextPlayback ==
    \/ connectCalls = 0 /\ Connect
    \/ \E level \in VolumeLevels : ConnectSetup(1, level)
    \/ onopen(1)
    \/ \E decodes \in BOOLEAN : \E duration \in Durations :
            Len(playLog) < MaxSegments /\ onmessage(1, decodes, duration)
    \/ \E d \in ClockSteps :
            /\ clockAdvances < MaxAdvances
            /\ outClock[1] + d <= MaxTime
            /\ ClockAdvances(1, d)

SpecPlayback == InitCoach /\ [][NextPlayback]_vars

\* One-shot requests that fail with any of the failures
InitFailing == InitRec /\ InitLive /\ InitAssist /\ thrown \in Failures

NextAssist ==
    \/ processAudioBlob
    \/ processAudioBlobFails
    \/ processAudioBlobSucceeds
    \/ handleRecordingStop
    \/ handleRecordingStopFails
    \/ handleRecordingStopSucceeds

SpecAssist == InitFailing /\ [][NextAssist]_vars

Spec == SpecRec

\* ------------------------------------------------------------------------
\* Properties
\* ------------------------------------------------------------------------
PushStep == chunkEvents' = chunkEvents + 1

\* C1: after every chunk-ready handler the buffer (and the count shown for it)
\* holds at most MAX_RECORDING_CHUNKS chunks.
C1_BufferWithinCapacity ==
    /\ Len(audioChunksRef) <= MAX_RECORDING_CHUNKS
    /\ bufferCount = Len(audioChunksRef)

C1_Witness ==
    /\ recorderState[1] = "recording"
    /\ chunkEvents > MAX_RECORDING_CHUNKS
    /\ Len(audioChunksRef) = MAX_RECORDING_CHUNKS

ChunkSet(chunks) == {chunks[i] : i \in 1..Len(chunks)}

\* C2: a push into a non-empty buffer leaves the chunk at index 0 in place; whatever
\* a push removes is the chunk at index 1, and the other chunks keep their order.
C2_Step ==
    (PushStep /\ Len(audioChunksRef) >= 1) =>
        /\ audioChunksRef'[1] = audioChunksRef[1]
        /\ IF Len(audioChunksRef') > Len(audioChunksRef)
           THEN SubSeq(audioChunksRef', 1, Len(audioChunksRef)) = audioChunksRef
           ELSE /\ Len(audioChunksRef) >= 2
                /\ ChunkSet(audioChunksRef) \ ChunkSet(audioChunksRef')
                      = {audioChunksRef[2]}
                /\ SubSeq(audioChunksRef', 2, Len(audioChunksRef') - 1)
                      = SubSeq(audioChunksRef, 3, Len(audioChunksRef))

C2_HeaderStays == [][C2_Step]_vars

C2_Witness ==
    /\ chunkEvents = MAX_RECORDING_CHUNKS + 2
    /\ audioChunksRef[1] = <<1, 1>>
    /\ audioChunksRef[2] = <<1, 4>>

\* The buffer the rolling policy leaves after n pushes of recorder r's chunks 1..n
\* into an empty buffer of capacity cap
ExpectedBuffer(r, n, cap) ==
    [i \in 1..Min(n, cap) |->
        IF n <= cap \/ i = 1 THEN <<r, i>> ELSE <<r, n - cap + i>>]

RECURSIVE PushAll(_, _, _)
PushAll(chunks, incoming, cap) ==
    IF incoming = <<>> THEN chunks
    ELSE PushAll(RollingPush(chunks, Head(incoming), cap), Tail(incoming), cap)

\* C3: after n pushes in a session the buffer is all n chunks in capture order
\* (n <= C), else the first chunk followed by the last C-1 chunks in capture order;
\* with capacity 5, pushing h, c1..c7 leaves h, c4, c5, c6, c7.
C3_BufferContents ==
    /\ produced[1] = chunkEvents
    /\ recorderState[1] # "none" =>
          audioChunksRef = ExpectedBuffer(1, chunkEvents, MAX_RECORDING_CHUNKS)
    /\ PushAll(<<>>, <<"h", "c1", "c2", "c3", "c4", "c5", "c6", "c7">>, 5)
          = <<"h", "c4", "c5", "c6", "c7">>

C3_Witness ==
    /\ chunkEvents = MAX_RECORDING_CHUNKS + 1
    /\ audioChunksRef[1] = <<1, 1>>
    /\ audioChunksRef[2] = <<1, 3>>
    /\ audioChunksRef[MAX_RECORDING_CHUNKS] = <<1, MAX_RECORDING_CHUNKS + 1>>

\* C4: a decoded segment starts at max(nextStartTime before it, device time at its
\* arrival) and leaves nextStartTime at that start plus its duration; each segment
\* finds the nextStartTime the one before left (0 after connect).  Durations
\* 1.0, 1.5, 0.5 arriving at t0, t0+0.2, t0+5.0 start at t0, t0+1.0, t0+5.0.
ExampleArrivals(t0) ==
    /\ Len(playLog) = 3
    /\ \A i \in 1..3 : playLog[i].ok
    /\ <<playLog[1].dur, playLog[2].dur, playLog[3].dur>> = <<10, 15, 5>>
    /\ <<playLog[1].now, playLog[2].now, playLog[3].now>> = <<t0, t0 + 2, t0 + 50>>

C4_StartTimes ==
    /\ \A i \in 1..Len(playLog) :
          /\ playLog[i].before = IF i = 1 THEN 0 ELSE playLog[i - 1].after
          /\ playLog[i].ok =>
                /\ playLog[i].start = Max(playLog[i].before, playLog[i].now)
                /\ playLog[i].after = playLog[i].start + playLog[i].dur
    /\ playLog # <<>> => nextStartTimeRef = playLog[Len(playLog)].after
    /\ \A t0 \in 0..MaxTime :
          ExampleArrivals(t0) =>
             <<playLog[1].start, playLog[2].start, playLog[3].start>>
                = <<t0, t0 + 10, t0 + 50>>

C4_Witness == ExampleArrivals(2) /\ nextStartTimeRef = 57

\* C5: of two segments scheduled on the same output device the later one starts no
\* earlier than the end of the earlier one, and the log order (arrival order) is the
\* order of the start times.
C5_NoOverlap ==
    \A i, j \in 1..Len(playLog) :
        (i < j /\ playLog[i].ok /\ playLog[j].ok /\ playLog[i].att = playLog[j].att) =>
            /\ playLog[j].start >= playLog[i].start + playLog[i].dur
            /\ playLog[j].now >= playLog[i].now

C5_Witness ==
    /\ Len(playLog) >= 2
    /\ playLog[1].ok /\ playLog[2].ok
    /\ playLog[2].now < playLog[1].start + playLog[1].dur
    /\ playLog[2].start = playLog[1].start + playLog[1].dur

\* C6: a segment whose decoding fails is dropped: nextStartTime stays what it was,
\* the next segment starts where it would have started without it, and the handler
\* changes nothing else of the session.
C6_Log ==
    \A i \in 1..Len(playLog) :
        ~playLog[i].decoded =>
            /\ ~playLog[i].ok
            /\ playLog[i].after = playLog[i].before
            /\ (i < Len(playLog) /\ playLog[i + 1].ok) =>
                  playLog[i + 1].start = Max(playLog[i].before, playLog[i + 1].now)

C6_Step ==
    (Len(playLog') = Len(playLog) + 1 /\ ~playLog'[Len(playLog')].decoded) =>
        UNCHANGED <<nextStartTimeRef, isConnected, status, isMuted, volumeLevel,
                    audioContextRef, inputContextRef, sessionRef, outputNodeRef,
                    channel, outputOpen, inputOpen, streaming>>

C6_DecodeFailureIsolated == []C6_Log /\ [][C6_Step]_vars

C6_Witness ==
    /\ Len(playLog) >= 2
    /\ ~playLog[1].decoded
    /\ playLog[1].now > playLog[1].before
    /\ playLog[2].ok
    /\ playLog[2].start = playLog[2].now

\* C7: disconnect() from any status leaves the session idle with its references
\* cleared and never closes a context twice; a second disconnect() right after
\* changes nothing of that.
C7_AfterDisconnect ==
    /\ ~closeError
    /\ disconnectRun >= 1 =>
          /\ status = "idle"
          /\ ~isConnected
          /\ volumeLevel = 0
          /\ audioContextRef = 0
          /\ inputContextRef = 0
          /\ animationFrameRef = 0

C7_SecondStep ==
    (disconnectRun >= 1 /\ disconnectRun' >= 1) =>
        UNCHANGED <<status, isConnected, volumeLevel, audioContextRef,
                    inputContextRef, animationFrameRef, outputOpen, inputOpen,
                    pendingFrames, closeError, isMuted, nextStartTimeRef,
                    sessionRef, outputNodeRef, micLive, streaming>>

C7_DisconnectIdempotent == []C7_AfterDisconnect /\ [][C7_SecondStep]_vars

C7_Witness ==
    /\ disconnectRun = 2
    /\ lastDisconnectFrom = "idle"
    /\ status = "idle"
    /\ channel[1] = "open"
    /\ inputOpen = {}
    /\ outputOpen = {}

\* C8: when the recorder's stop event finds the buffer empty, onRecordingStop is not
\* called and no error is set; stopRecording itself sets no error and calls nothing;
\* no blob handed to onRecordingStop is empty.
StopEventStep == \E r \in Calls : recorderState[r] = "flushed" /\ recorderState'[r] = "inactive"

StopRecordingStep == isRecording /\ ~isRecording'

C8_Step ==
    /\ (StopEventStep /\ Len(audioChunksRef) = 0) =>
          UNCHANGED <<delivered, errorState>>
    /\ StopRecordingStep => UNCHANGED <<delivered, errorState>>

C8_Delivered == \A i \in 1..Len(delivered) : Len(delivered[i]) > 0

C8_NoEmptyFinalization == []C8_Delivered /\ [][C8_Step]_vars

C8_Witness ==
    /\ recorderState[1] = "inactive"
    /\ produced[1] = 0
    /\ audioChunksRef = <<>>
    /\ delivered = <<>>
    /\ ~isRecording

\* C9: a start() made while the denial is recorded sets the still-blocked error and
\* returns: it queries no permission, acquires no device and leaves nothing pending.
C9_Step ==
    (startCalls' = startCalls + 1 /\ permissionDenied) =>
        /\ errorState' = "permission-blocked-refresh"
        /\ UNCHANGED <<queryCalls, gumCalls, permissionDenied, isRecording,
                       mediaRecorderRef, liveTracks>>
        /\ startPc'[startCalls'] = "done"

C9_DeniedStartShortCircuits == [][C9_Step]_vars

C9_Witness ==
    /\ permissionDenied
    /\ errorState = "permission-blocked-refresh"
    /\ startCalls >= 2

\* C10: a push never lowers the occupancy; once MAX_RECORDING_CHUNKS chunks have been
\* pushed it is 100 percent; the full flag is true exactly when the count equals
\* MAX_RECORDING_CHUNKS.  (bufferPercentage is the numerator over
\* MAX_RECORDING_CHUNKS, so 100 percent is 100 * MAX_RECORDING_CHUNKS.)
C10_State ==
    /\ isBufferFull <=> bufferCount = MAX_RECORDING_CHUNKS
    /\ isBufferFull <=> Len(audioChunksRef) = MAX_RECORDING_CHUNKS
    /\ (recorderState[1] # "none" /\ chunkEvents >= MAX_RECORDING_CHUNKS) =>
          bufferPercentage = 100 * MAX_RECORDING_CHUNKS
    /\ bufferPercentage <= 100 * MAX_RECORDING_CHUNKS

C10_Step == PushStep => bufferPercentage' >= bufferPercentage

C10_Occupancy == []C10_State /\ [][C10_Step]_vars

C10_Witness ==
    /\ chunkEvents = MAX_RECORDING_CHUNKS + 2
    /\ isBufferFull
    /\ bufferPercentage = 100 * MAX_RECORDING_CHUNKS
    /\ recordingDuration = MaxDuration

\* C11: a frame delivered while the mute flag is set is not handed to the remote
\* channel, and a frame delivered on an opened session while the flag is clear is.
C11_MutedFramesDropped ==
    lastFrame.att # 0 =>
        /\ lastFrame.muted => ~lastFrame.sent
        /\ (~lastFrame.muted /\ lastFrame.opened) => lastFrame.sent

\* C12: no frame is handed to the remote channel of an attempt before that attempt's
\* onopen has run.
C12_NoFrameBeforeOpen == lastFrame.sent => lastFrame.opened

C12_Witness ==
    /\ lastFrame.att # 0
    /\ ~lastFrame.opened
    /\ ~lastFrame.sent
    /\ ~lastFrame.muted
    /\ channel[lastFrame.att] = "connecting"

\* C13: once disconnect() has returned nothing of the session is left: no volume loop
\* frame is pending, no input or output context is open, no microphone track is live,
\* no remote channel is open or being opened, and the status is idle.
C13_AllReleased ==
    disconnectRun >= 1 =>
        /\ status = "idle"
        /\ ~isConnected
        /\ pendingFrames = {}
        /\ inputOpen = {}
        /\ outputOpen = {}
        /\ micLive = {}
        /\ \A a \in Attempts : channel[a] \notin {"connecting", "open"}

\* C14: the step in which an open channel reports an error runs the whole of
\* disconnect(), and once a channel has reported an error the status goes back to
\* connecting or connected only by a call of connect().
C14_ErrorStep ==
    \E a \in Attempts : channel[a] = "open" /\ channel'[a] = "errored"

C14_Step ==
    /\ C14_ErrorStep =>
          /\ status' = "idle"
          /\ ~isConnected'
          /\ audioContextRef' = 0
          /\ inputContextRef' = 0
          /\ animationFrameRef' = 0
    /\ ( /\ \E a \in Attempts : channel[a] = "errored"
         /\ status \notin {"connecting", "connected"}
         /\ status' \in {"connecting", "connected"} ) =>
          connectCalls' = connectCalls + 1

C14_ErrorTearsDownForGood == [][C14_Step]_vars

\* C15: the step in which a connect() attempt fails (getUserMedia rejects, or the
\* channel cannot be established) leaves the status error with the teardown of
\* disconnect() done; in particular it does not leave the status connecting.
C15_FailStep(a) ==
    \/ connectPc[a] = "gum" /\ connectPc'[a] = "done" /\ channel'[a] = "none"
    \/ channel[a] = "connecting" /\ channel'[a] \in {"failed", "refused"}

C15_Step ==
    \A a \in Attempts :
        C15_FailStep(a) =>
            /\ status' = "error"
            /\ ~isConnected'
            /\ audioContextRef' = 0
            /\ inputContextRef' = 0
            /\ animationFrameRef' = 0

C15_FailedConnectErrored == [][C15_Step]_vars

\* C16: an attempt whose channel could not be established after its microphone,
\* contexts and volume loop were opened has none of them open any more.
C16_NoPartialResources ==
    \A a \in Attempts :
        channel[a] \in {"failed", "refused"} =>
            /\ a \notin micLive
            /\ a \notin inputOpen
            /\ a \notin outputOpen
            /\ a \notin pendingFrames

\* C17: at most one microphone tap, one input and one output context and one remote
\* channel are live at a time.
LiveChannels == {a \in Attempts : channel[a] \in {"connecting", "open"}}

C17_AtMostOneSession ==
    /\ Cardinality(micLive) <= 1
    /\ Cardinality(inputOpen) <= 1
    /\ Cardinality(outputOpen) <= 1
    /\ Cardinality(LiveChannels) <= 1

\* C18: when an attempt that was awaiting getUserMedia while the component's final
\* disconnect() ran resumes, it opens no microphone, context or channel and leaves
\* the status idle.
C18_Step ==
    \A a \in Attempts :
        (~liveMounted /\ connectPc[a] = "gum" /\ connectPc'[a] = "done") =>
            /\ a \notin micLive'
            /\ a \notin inputOpen'
            /\ a \notin outputOpen'
            /\ channel'[a] \notin {"connecting", "open"}
            /\ status' = "idle"

C18_AbandonedAttemptLeaksNothing == [][C18_Step]_vars

\* C19: at most one recording stream has live tracks and at most one duration timer
\* is running at any time.
C19_OneStreamOneTimer ==
    /\ Cardinality(liveTracks) <= 1
    /\ Cardinality(liveTimers) <= 1

\* C20: stopRecording leaves no stream with live tracks and no duration timer
\* running; the consumer is signalled only by a recorder's stop event, once, with
\* the buffer as it is then, when that buffer is not empty.
C20_Step ==
    /\ StopRecordingStep =>
          /\ liveTracks' = {}
          /\ liveTimers' = {}
          /\ \A r \in Calls : recorderState'[r] # "recording"
    /\ (StopEventStep /\ Len(audioChunksRef) > 0) =>
          delivered' = Append(delivered, audioChunksRef)
    /\ delivered' # delivered => StopEventStep

C20_StopFinalizesOnce == [][C20_Step]_vars

\* C24: a start() whose getUserMedia fails for another reason than refused permission
\* sets the device error, leaves the denial flag and the recording state as they
\* were and starts nothing; a start() made while no denial is recorded goes on to
\* the permission query or to getUserMedia.
C24_RejectStep(c) ==
    startPc[c] = "gum" /\ startPc'[c] = "done" /\ recorderState'[c] = "none"

C24_Step ==
    /\ \A c \in Calls :
          (C24_RejectStep(c)
             /\ lastGumError' \notin {"NotAllowedError", "PermissionDeniedError"}) =>
              /\ errorState' = "mic-error"
              /\ UNCHANGED <<permissionDenied, isRecording, mediaRecorderRef,
                             liveTracks, liveTimers, recorderState>>
    /\ (startCalls' = startCalls + 1 /\ ~permissionDenied) =>
          /\ startPc'[startCalls'] \in {"query", "gum"}
          /\ startPc'[startCalls'] = "gum" => gumCalls' = gumCalls + 1

C24_DeviceErrorNotDurable == [][C24_Step]_vars

C24_Witness ==
    /\ lastGumError = "NotFoundError"
    /\ ~permissionDenied
    /\ ~isRecording
    /\ startPc[1] = "done"
    /\ startPc[2] = "gum"
    /\ gumCalls = 2

\* C21: a duration tick fires only while recording or while a start() is under way,
\* and a volume update runs only while the session holds a context or a connect()
\* is under way: after stopRecording or disconnect() none fires until the next
\* start() or connect().
C21_TickStep ==
    recordingDuration' = recordingDuration + 1 =>
        \/ isRecording
        \/ \E c \in Calls : startPc[c] \in {"query", "gum"}

C21_VolumeStep ==
    ( /\ UNCHANGED <<connectPc, pendingFrames>>
      /\ animationFrameRef' # 0
      /\ <<volumeLevel, animationFrameRef>>' # <<volumeLevel, animationFrameRef>> ) =>
        \/ audioContextRef # 0
        \/ inputContextRef # 0
        \/ \E a \in Attempts : connectPc[a] = "gum"

C21_NothingRunsAfterStop == [][C21_TickStep /\ C21_VolumeStep]_vars

\* C22: the blob handed to the consumer is what getAudioBlob returns right then, and
\* once the session's recorder has stopped and getAudioBlob equals the last delivered
\* blob, only a successful start() changes what getAudioBlob returns.
C22_Step ==
    /\ delivered' # delivered =>
          getAudioBlob' = delivered'[Len(delivered')]
    /\ ( /\ delivered # <<>>
         /\ ~isRecording
         /\ mediaRecorderRef # 0
         /\ recorderState[mediaRecorderRef] = "inactive"
         /\ getAudioBlob = delivered[Len(delivered)]
         /\ getAudioBlob' # getAudioBlob ) =>
          \E c \in Calls : recorderState[c] = "none" /\ recorderState'[c] = "recording"

C22_RetryBlobIsDeliveredBlob == [][C22_Step]_vars

\* C23: once permissionDenied is set, no operation of the hook clears it.
C23_Step == permissionDenied => permissionDenied'

C23_DenialIsDurable == [][C23_Step]_vars

\* C26: a connect() that finishes its setup leaves nextStartTimeRef at the current
\* time of its new output context; the first segment an attempt schedules starts at
\* the current time at its arrival; and nextStartTimeRef decreases only in such a
\* setup, made while no session is set up (after disconnect() or before the first).
C26_SetupStep(a) == connectPc[a] = "gum" /\ connectPc'[a] = "done" /\ a \in outputOpen'

C26_FirstSegments ==
    \A i \in 1..Len(playLog) :
        ( /\ playLog[i].ok
          /\ \A j \in 1..(i - 1) : ~(playLog[j].ok /\ playLog[j].att = playLog[i].att) ) =>
            playLog[i].start = playLog[i].now

C26_Step ==
    /\ \A a \in Attempts : C26_SetupStep(a) => nextStartTimeRef' = outClock'[a]
    /\ nextStartTimeRef' < nextStartTimeRef =>
          /\ \E a \in Attempts : C26_SetupStep(a)
          /\ audioContextRef = 0

C26_ClockResetOnConnect == []C26_FirstSegments /\ [][C26_Step]_vars

\* C27: a frame that the tap hands to a remote channel that is open is handed over
\* while the status is 'connected'.
C27_FramesOnlyWhileConnected ==
    (lastFrame.sent /\ lastFrame.live) => lastFrame.state = "connected"

\* C28: a message handled for an attempt whose output context disconnect() has
\* closed schedules nothing and leaves nextStartTimeRef as it was.
C28_Step ==
    Len(playLog') = Len(playLog) + 1 =>
        LET m == playLog'[Len(playLog')]
        IN  m.att \notin outputOpen =>
                /\ ~m.ok
                /\ nextStartTimeRef' = nextStartTimeRef

C28_LateMessageIgnored == [][C28_Step]_vars

\* C29: a successful start() empties the buffer and zeroes bufferCount and
\* recordingDuration; the buffer then holds only chunks of the recorder of the
\* session in mediaRecorderRef, and the stop event of another recorder delivers
\* nothing.
C29_OwnChunks ==
    mediaRecorderRef # 0 =>
        \A i \in 1..Len(audioChunksRef) : audioChunksRef[i][1] = mediaRecorderRef

C29_Step ==
    /\ (\E c \in Calls : recorderState[c] = "none" /\ recorderState'[c] = "recording") =>
          /\ audioChunksRef' = <<>>
          /\ bufferCount' = 0
          /\ recordingDuration' = 0
    /\ \A r \in Calls :
          (recorderState[r] = "flushed" /\ recorderState'[r] = "inactive"
             /\ r # mediaRecorderRef) => delivered' = delivered

C29_BufferOwnedBySession == []C29_OwnChunks /\ [][C29_Step]_vars

\* C30: while the mounted hook is recording, the interval in timerIntervalRef is
\* running, and a step that raises recordingDuration raises it by exactly 1.
C30_TimerActive ==
    (hookMounted /\ isRecording) =>
        /\ timerIntervalRef # 0
        /\ timerIntervalRef \in liveTimers

C30_Step == recordingDuration' > recordingDuration => recordingDuration' = recordingDuration + 1

C30_TimerRunsWhileRecording == []C30_TimerActive /\ [][C30_Step]_vars

\* C25: the title of a failed request is the one of the first category, in the order
\* safety, rate limit, unclear input, network, that the failure's description
\* matches, and the generic one when it matches none.
C25_Matches(i, s) ==
    CASE i = 1 -> includes(s, kwSafety) \/ includes(s, kwBlocked)
      [] i = 2 -> includes(s, kw429) \/ includes(s, kwResourceExhausted)
      [] i = 3 -> includes(s, kwNoResponse) \/ includes(s, kwCandidate)
      [] i = 4 -> includes(s, kwNetwork) \/ includes(s, kwFetch)

C25_Category(s) ==
    LET matched == {i \in 1..4 : C25_Matches(i, s)}
    IN  IF matched = {} THEN 5
        ELSE CHOOSE i \in matched : \A j \in matched : i <= j

C25_DraftTitles ==
    <<"Content Flagged", "High Traffic", "Audio Unclear", "Connection Error",
      "Processing Failed">>

C25_ResearchTitles ==
    <<"Content Flagged", "System Busy", "Audio Unclear", "Connection Error",
      "Processing Failed">>

C25_FirstMatchingCategory ==
    (processingError # "null" \/ researchError # "null") =>
        LET category == C25_Category(errString(thrown))
        IN  /\ processingError # "null" => processingError = C25_DraftTitles[category]
            /\ researchError # "null" => researchError = C25_ResearchTitles[category]

\* A failure whose description matches the safety category (in upper case) and the
\* network category has been categorised by both components
C25_Witness ==
    /\ processingError = "Content Flagged"
    /\ researchError = "Content Flagged"
    /\ includes(errorToString(thrown), phSafety)
    /\ C25_Matches(4, errString(thrown))
====
